---- MODULE Spec2Model ----
(***************************************************************************)
(* ax/modelbridge/dispatch_utils.py: the heuristic that picks a model for  *)
(* a search space (_suggest_gp_model) and the assembly of the generation   *)
(* strategy (choose_generation_strategy with _make_sobol_step and          *)
(* _make_botorch_step).                                                    *)
(*                                                                         *)
(* One behaviour is one call of choose_generation_strategy.  The arguments *)
(* are fixed by the initial state; the actions are the successive parts of *)
(* the function body, so that the order in which errors are raised and     *)
(* GenerationSteps are constructed is visible.                             *)
(*                                                                         *)
(* Optional[T] is modelled as a sequence of length 0 (None) or 1.          *)
(* The winsorization limits (floats in the source) are given in percent.   *)
(***************************************************************************)
EXTENDS Integers, Sequences, FiniteSets, TLC

\* ---------------------------------------------------------------- bounds
\* Longest search space of which every sequence of parameters is enumerated.
MaxParams == 2
\* Longest search space made of one repeated parameter.
MaxRepeat == 7
\* Largest upper bound of an integer range parameter.
MaxUpper == 2
\* Largest number of values of an enumerated choice parameter.
MaxChoiceValues == 3
\* Largest known total number of trials.
MaxNumTrials == 4

\* ------------------------------------------------------- program constants
DEFAULT_BAYESIAN_PARALLELISM == 3
MAX_DISCRETE_COMBINATIONS == 65

\* ---------------------------------------------------------------- Optional
None == <<>>
Some(x) == <<x>>
\* Python truthiness of an Optional[int]: None and 0 are false.
Truthy(o) == o /= None /\ o[1] /= 0

\* ---------------------------------------------------------------- parameters
ChoiceParameter(n) ==
    [kind |-> "ChoiceParameter", values |-> [i \in 1..n |-> i],
     lower |-> 0, upper |-> 0, parameter_type |-> "STRING"]
RangeParameter(type, lo, hi) ==
    [kind |-> "RangeParameter", values |-> <<>>,
     lower |-> lo, upper |-> hi, parameter_type |-> type]
FixedParameter ==
    [kind |-> "FixedParameter", values |-> <<>>,
     lower |-> 0, upper |-> 0, parameter_type |-> "FLOAT"]

\* ------------------------------------------------------ _suggest_gp_model
Summary0 ==
    [num_continuous_parameters |-> 0, num_discrete_choices |-> 0,
     num_discrete_combinations |-> 1, num_possible_points |-> 1,
     all_range_parameters_are_int |-> TRUE]

\* int(parameter.upper - parameter.lower)
RangeWidthOff(parameter) == parameter.upper - parameter.lower + 1
RangeWidth(parameter) == parameter.upper - parameter.lower

\* One iteration of the loop over search_space.parameters.values().
VisitParameter(s, parameter) ==
    IF parameter.kind = "ChoiceParameter"
    THEN [s EXCEPT
            !.num_discrete_choices = @ + Len(parameter.values),
            !.num_discrete_combinations = @ * Len(parameter.values),
            !.num_possible_points = @ * Len(parameter.values)]
    ELSE IF parameter.kind = "RangeParameter"
    THEN IF parameter.parameter_type /= "INT"
         THEN [s EXCEPT !.num_continuous_parameters = @ + 1,
                        !.all_range_parameters_are_int = FALSE]
         ELSE [s EXCEPT !.num_continuous_parameters = @ + 1,
                        !.num_possible_points = @ * RangeWidth(parameter)]
    ELSE s

RECURSIVE Summarize(_, _)
Summarize(s, parameters) ==
    IF parameters = <<>> THEN s
    ELSE Summarize(VisitParameter(s, Head(parameters)), Tail(parameters))

\* The guard of the first return: the search space can be enumerated.
CanEnumerateStrict(s, num_trials) ==
    /\ num_trials /= None
    /\ s.all_range_parameters_are_int
    /\ s.num_possible_points < num_trials[1]
CanEnumerate(s, num_trials) ==
    /\ num_trials /= None
    /\ s.all_range_parameters_are_int
    /\ s.num_possible_points <= num_trials[1]

\* optimization_config and optimization_config.is_moo_problem, as a truth value
IsMooProblem(optimization_config) ==
    optimization_config /= None /\ optimization_config[1].is_moo_problem

\* The if/elif/else chain after the enumeration test.
SuggestByKindNoCeiling(s, is_moo_problem, use_saasbo) ==
    IF s.num_continuous_parameters > s.num_discrete_choices
    THEN IF is_moo_problem /\ use_saasbo THEN Some("FULLYBAYESIANMOO")
         ELSE IF is_moo_problem /\ ~use_saasbo THEN Some("MOO")
         ELSE IF use_saasbo THEN Some("FULLYBAYESIAN")
         ELSE Some("GPEI")
    ELSE IF ~is_moo_problem THEN Some("BO_MIXED")
    ELSE None
SuggestByKind(s, is_moo_problem, use_saasbo) ==
    IF s.num_continuous_parameters > s.num_discrete_choices
    THEN IF is_moo_problem /\ use_saasbo THEN Some("FULLYBAYESIANMOO")
         ELSE IF is_moo_problem /\ ~use_saasbo THEN Some("MOO")
         ELSE IF use_saasbo THEN Some("FULLYBAYESIAN")
         ELSE Some("GPEI")
    ELSE IF ~is_moo_problem
            /\ s.num_discrete_combinations <= MAX_DISCRETE_COMBINATIONS
    THEN Some("BO_MIXED")
    ELSE None

_suggest_gp_model(search_space, num_trials, optimization_config, use_saasbo) ==
    LET s == Summarize(Summary0, search_space)
    IN  IF CanEnumerate(s, num_trials) THEN None
        ELSE SuggestByKind(s, IsMooProblem(optimization_config), use_saasbo)

\* ------------------------------------------------------- generation steps
\* ceil(num_trials / 2)
FloorHalf(num_trials) == num_trials \div 2
CeilHalf(num_trials) == -((-num_trials) \div 2)

\* min_trials_observed or ceil(num_trials / 2)
MinTrialsObserved(min_trials_observed, num_trials) ==
    IF Truthy(min_trials_observed) THEN min_trials_observed[1]
    ELSE CeilHalf(num_trials)

_make_sobol_step_dedup_dropped(num_trials, min_trials_observed, enforce_num_trials, max_parallelism, seed, should_deduplicate) ==
    [model |-> "SOBOL",
     num_trials |-> num_trials,
     min_trials_observed |-> MinTrialsObserved(min_trials_observed, num_trials),
     enforce_num_trials |-> enforce_num_trials,
     max_parallelism |-> max_parallelism,
     model_kwargs |-> Some([deduplicate |-> TRUE, seed |-> seed]),
     should_deduplicate |-> FALSE]
_make_sobol_step(num_trials, min_trials_observed, enforce_num_trials, max_parallelism, seed, should_deduplicate) ==
    [model |-> "SOBOL",
     num_trials |-> num_trials,
     min_trials_observed |-> MinTrialsObserved(min_trials_observed, num_trials),
     enforce_num_trials |-> enforce_num_trials,
     max_parallelism |-> max_parallelism,
     model_kwargs |-> Some([deduplicate |-> TRUE, seed |-> seed]),
     should_deduplicate |-> should_deduplicate]

\* The test that guards the ValueError of _make_botorch_step.
WinsorizationMismatchOneSided(winsorize, winsorization_limits) ==
    winsorize /\ winsorization_limits = None
WinsorizationMismatch(winsorize, winsorization_limits) ==
    \/ winsorize /\ winsorization_limits = None
    \/ winsorization_limits /= None /\ ~winsorize

\* The value _make_botorch_step returns when it does not raise.
_make_botorch_step(num_trials, min_trials_observed, enforce_num_trials, max_parallelism, model, winsorize, winsorization_limits, should_deduplicate) ==
    [model |-> model,
     num_trials |-> num_trials,
     min_trials_observed |-> MinTrialsObserved(min_trials_observed, num_trials),
     enforce_num_trials |-> enforce_num_trials,
     max_parallelism |-> max_parallelism,
     model_kwargs |->
        IF winsorize
        THEN Some([transforms |-> <<"Winsorize", "Cont_X_trans", "Y_trans">>,
                   transform_configs |->
                     [Winsorize |->
                        [winsorization_lower |-> winsorization_limits[1][1],
                         winsorization_upper |-> winsorization_limits[1][2]]]])
        ELSE None,
     should_deduplicate |-> should_deduplicate]

\* ------------------------------------------- choose_generation_strategy
\* max_parallelism_override and max_parallelism_cap (Python truthiness)
ParallelismConflict(max_parallelism_override, max_parallelism_cap) ==
    Truthy(max_parallelism_override) /\ Truthy(max_parallelism_cap)

Max(a, b) == IF a >= b THEN a ELSE b
Min(a, b) == IF a <= b THEN a ELSE b

\* The estimate used when num_initialization_trials is None.
EstimateInitializationTrialsFlat(use_batch_trials, search_space) ==
    IF use_batch_trials THEN 1 ELSE 5
EstimateInitializationTrials(use_batch_trials, search_space) ==
    IF use_batch_trials THEN 1 ELSE Max(5, Len(search_space))

\* The if/elif chain that sets sobol_parallelism.
SobolParallelism(max_parallelism_override, max_parallelism_cap, enforce_sequential_optimization) ==
    IF max_parallelism_override = Some(-1) THEN None
    ELSE IF max_parallelism_override /= None THEN max_parallelism_override
    ELSE IF max_parallelism_cap /= None THEN max_parallelism_cap
    ELSE IF ~enforce_sequential_optimization THEN None
    ELSE None

\* The same chain, for bo_parallelism.
BoParallelismUncapped(max_parallelism_override, max_parallelism_cap, enforce_sequential_optimization) ==
    IF max_parallelism_override = Some(-1) THEN None
    ELSE IF max_parallelism_override /= None THEN max_parallelism_override
    ELSE IF max_parallelism_cap /= None THEN max_parallelism_cap
    ELSE IF ~enforce_sequential_optimization THEN None
    ELSE Some(DEFAULT_BAYESIAN_PARALLELISM)
BoParallelism(max_parallelism_override, max_parallelism_cap, enforce_sequential_optimization) ==
    IF max_parallelism_override = Some(-1) THEN None
    ELSE IF max_parallelism_override /= None THEN max_parallelism_override
    ELSE IF max_parallelism_cap /= None
    THEN Some(Min(max_parallelism_cap[1], DEFAULT_BAYESIAN_PARALLELISM))
    ELSE IF ~enforce_sequential_optimization THEN None
    ELSE Some(DEFAULT_BAYESIAN_PARALLELISM)

\* ------------------------------------------------------------------ state
VARIABLES
    args,                       \* the arguments of the call
    pc,                         \* the part of the body to run next
    suggested_model,
    num_initialization_trials,  \* the argument, reassigned by the estimate
    sobol_parallelism,
    bo_parallelism,
    steps,                      \* the GenerationSteps constructed so far
    gs,                         \* the strategy returned
    raised                      \* the exception that ended the call

vars == <<args, pc, suggested_model, num_initialization_trials, sobol_parallelism, bo_parallelism, steps, gs, raised>>

\* ---------------------------------------------------------------- inputs
Parameters ==
    {RangeParameter("FLOAT", 0, 1), FixedParameter}
    \cup ({RangeParameter("INT", lo, hi) : lo \in 0..1, hi \in 1..MaxUpper} \ {RangeParameter("INT", 1, 1)})
    \cup {ChoiceParameter(n) : n \in 2..MaxChoiceValues}

Repeat(parameter, n) == [i \in 1..n |-> parameter]

\* Spaces at the thresholds of the heuristic: five float ranges and a choice
\* of two; 65 and 66 combinations of choice values.
ThresholdSpaces ==
    { Repeat(RangeParameter("FLOAT", 0, 1), 5) \o <<ChoiceParameter(2)>>,
      <<ChoiceParameter(5), ChoiceParameter(13)>>,
      <<ChoiceParameter(6), ChoiceParameter(11)>> }

SearchSpaces ==
    UNION {[1..n -> Parameters] : n \in 0..MaxParams}
    \cup {Repeat(p, n) : p \in Parameters, n \in 0..MaxRepeat}
    \cup ThresholdSpaces

NumTrialsValues == {None} \cup {Some(n) : n \in -1..MaxNumTrials}
OptimizationConfigs == {None, Some([is_moo_problem |-> FALSE]), Some([is_moo_problem |-> TRUE])}

\* Calls that vary what the heuristic reads; the other arguments keep the
\* defaults of the signature.
HeuristicCalls ==
    [search_space : SearchSpaces,
     num_trials : NumTrialsValues,
     optimization_config : OptimizationConfigs,
     use_saasbo : BOOLEAN,
     experiment : {None, Some("experiment")},
     use_batch_trials : {FALSE},
     enforce_sequential_optimization : {TRUE},
     random_seed : {None},
     winsorize_botorch_model : {FALSE},
     winsorization_limits : {None},
     no_bayesian_optimization : {FALSE},
     num_initialization_trials : {None},
     max_parallelism_cap : {None},
     max_parallelism_override : {None},
     should_deduplicate : {FALSE}]

\* Calls that vary what the assembly reads, over a few search spaces.
AssemblyCalls ==
    [search_space : {<<>>, Repeat(RangeParameter("FLOAT", 0, 1), MaxRepeat)},
     num_trials : {None, Some(1)},
     optimization_config : {None},
     use_saasbo : {FALSE},
     experiment : {None},
     use_batch_trials : BOOLEAN,
     enforce_sequential_optimization : BOOLEAN,
     random_seed : {None, Some(17)},
     winsorize_botorch_model : BOOLEAN,
     winsorization_limits : {None, Some(<<Some(10), Some(90)>>)},
     no_bayesian_optimization : BOOLEAN,
     num_initialization_trials : {None} \cup {Some(n) : n \in {-3, -2, -1, 0, 1, 2, 7}},
     max_parallelism_cap : {None, Some(0), Some(2), Some(5)},
     max_parallelism_override : {None, Some(-1), Some(0), Some(4)},
     should_deduplicate : BOOLEAN]

Init ==
    /\ args \in HeuristicCalls \cup AssemblyCalls
    /\ pc = "suggest"
    /\ suggested_model = None
    /\ num_initialization_trials = args.num_initialization_trials
    /\ sobol_parallelism = None
    /\ bo_parallelism = None
    /\ steps = <<>>
    /\ gs = None
    /\ raised = None

\* --------------------------------------------------------------- actions
\* suggested_model = _suggest_gp_model(...) and the test of the outer if
SuggestModel ==
    /\ pc = "suggest"
    /\ suggested_model' = _suggest_gp_model(args.search_space, args.num_trials, args.optimization_config, args.use_saasbo)
    /\ pc' = IF ~args.no_bayesian_optimization /\ suggested_model' /= None
             THEN "check_parallelism" ELSE "sobol_only"
    /\ UNCHANGED <<args, num_initialization_trials, sobol_parallelism, bo_parallelism, steps, gs, raised>>

\* raise ValueError("If `max_parallelism_override` specified, ...")
RaiseParallelismConflictAfterSobolStep ==
    /\ pc = "check_parallelism"
    /\ ParallelismConflict(args.max_parallelism_override, args.max_parallelism_cap)
    /\ steps' = Append(steps, _make_sobol_step(-1, None, args.enforce_sequential_optimization, None, args.random_seed, args.should_deduplicate))
    /\ raised' = Some([type |-> "ValueError", in |-> "choose_generation_strategy"])
    /\ pc' = "raised"
    /\ UNCHANGED <<args, suggested_model, num_initialization_trials, sobol_parallelism, bo_parallelism, gs>>
RaiseParallelismConflict ==
    /\ pc = "check_parallelism"
    /\ ParallelismConflict(args.max_parallelism_override, args.max_parallelism_cap)
    /\ raised' = Some([type |-> "ValueError", in |-> "choose_generation_strategy"])
    /\ pc' = "raised"
    /\ UNCHANGED <<args, suggested_model, num_initialization_trials, sobol_parallelism, bo_parallelism, steps, gs>>

\* The estimate of num_initialization_trials and the max parallelism of the
\* two steps.
ResolveSettings ==
    /\ pc = "check_parallelism"
    /\ ~ParallelismConflict(args.max_parallelism_override, args.max_parallelism_cap)
    /\ num_initialization_trials' =
         IF num_initialization_trials = None
         THEN Some(EstimateInitializationTrials(args.use_batch_trials, args.search_space))
         ELSE num_initialization_trials
    /\ sobol_parallelism' = SobolParallelism(args.max_parallelism_override, args.max_parallelism_cap, args.enforce_sequential_optimization)
    /\ bo_parallelism' = BoParallelism(args.max_parallelism_override, args.max_parallelism_cap, args.enforce_sequential_optimization)
    /\ pc' = "make_sobol"
    /\ UNCHANGED <<args, suggested_model, steps, gs, raised>>

\* The first element of the steps list: _make_sobol_step(...)
MakeSobolStep ==
    /\ pc = "make_sobol"
    /\ steps' = Append(steps, _make_sobol_step(num_initialization_trials[1], None, args.enforce_sequential_optimization, sobol_parallelism, args.random_seed, args.should_deduplicate))
    /\ pc' = "make_botorch"
    /\ UNCHANGED <<args, suggested_model, num_initialization_trials, sobol_parallelism, bo_parallelism, gs, raised>>

\* The second element: _make_botorch_step(...) raises ValueError
RaiseWinsorization ==
    /\ pc = "make_botorch"
    /\ WinsorizationMismatch(args.winsorize_botorch_model, args.winsorization_limits)
    /\ raised' = Some([type |-> "ValueError", in |-> "_make_botorch_step"])
    /\ pc' = "raised"
    /\ UNCHANGED <<args, suggested_model, num_initialization_trials, sobol_parallelism, bo_parallelism, steps, gs>>

\* The second element: _make_botorch_step(...) returns a step
MakeBotorchStep ==
    /\ pc = "make_botorch"
    /\ ~WinsorizationMismatch(args.winsorize_botorch_model, args.winsorization_limits)
    /\ steps' = Append(steps, _make_botorch_step(-1, None, TRUE, bo_parallelism, suggested_model[1], args.winsorize_botorch_model, args.winsorization_limits, args.should_deduplicate))
    /\ pc' = "make_strategy"
    /\ UNCHANGED <<args, suggested_model, num_initialization_trials, sobol_parallelism, bo_parallelism, gs, raised>>

\* The else branch: _make_sobol_step(seed=..., should_deduplicate=...)
MakeSobolOnlyStep ==
    /\ pc = "sobol_only"
    /\ steps' = Append(steps, _make_sobol_step(-1, None, TRUE, None, args.random_seed, args.should_deduplicate))
    /\ pc' = "make_strategy"
    /\ UNCHANGED <<args, suggested_model, num_initialization_trials, sobol_parallelism, bo_parallelism, gs, raised>>

\* GenerationStrategy(steps=[...]), the experiment attached, return gs
ReturnStrategy ==
    /\ pc = "make_strategy"
    /\ gs' = Some([steps |-> steps, experiment |-> args.experiment])
    /\ pc' = "returned"
    /\ UNCHANGED <<args, suggested_model, num_initialization_trials, sobol_parallelism, bo_parallelism, steps, raised>>

Next ==
    \/ SuggestModel
    \/ RaiseParallelismConflict
    \/ ResolveSettings
    \/ MakeSobolStep
    \/ RaiseWinsorization
    \/ MakeBotorchStep
    \/ MakeSobolOnlyStep
    \/ ReturnStrategy

Spec == Init /\ [][Next]_vars

\* ------------------------------------------------------------------------
\* Reference definitions used to state the properties.  They restate the
\* quantities of the specification directly from the arguments of the call.
RangeIndices(search_space) == {i \in DOMAIN search_space : search_space[i].kind = "RangeParameter"}
ChoiceIndices(search_space) == {i \in DOMAIN search_space : search_space[i].kind = "ChoiceParameter"}
EveryRangeIsInteger(search_space) == \A i \in RangeIndices(search_space) : search_space[i].parameter_type = "INT"

\* Product of the choice value counts and of the integer range spans.
PointCount(search_space) ==
    LET factor(p) == IF p.kind = "ChoiceParameter" THEN Len(p.values)
                     ELSE IF p.kind = "RangeParameter" /\ p.parameter_type = "INT" THEN p.upper - p.lower
                     ELSE 1
        prod[i \in 0..Len(search_space)] == IF i = 0 THEN 1 ELSE prod[i - 1] * factor(search_space[i])
    IN  prod[Len(search_space)]
\* Product and sum of the choice value counts.
CombinationCount(search_space) ==
    LET prod[i \in 0..Len(search_space)] ==
            IF i = 0 THEN 1
            ELSE IF i \in ChoiceIndices(search_space) THEN prod[i - 1] * Len(search_space[i].values)
            ELSE prod[i - 1]
    IN  prod[Len(search_space)]
ChoiceValueCount(search_space) ==
    LET sum[i \in 0..Len(search_space)] ==
            IF i = 0 THEN 0
            ELSE IF i \in ChoiceIndices(search_space) THEN sum[i - 1] + Len(search_space[i].values)
            ELSE sum[i - 1]
    IN  sum[Len(search_space)]
ContinuousCount(search_space) == Cardinality(RangeIndices(search_space))

MultiObjective == args.optimization_config = Some([is_moo_problem |-> TRUE])
BudgetKnown == args.num_trials /= None
Enumerable ==
    /\ BudgetKnown
    /\ EveryRangeIsInteger(args.search_space)
    /\ PointCount(args.search_space) <= args.num_trials[1]
Suggested == pc /= "suggest"
\* The call is in, or went through, the branch that builds two steps.
ModelBranch == Suggested /\ ~args.no_bayesian_optimization /\ suggested_model /= None
Resolved == ModelBranch /\ pc \in {"make_sobol", "make_botorch", "make_strategy", "returned"}
Finished == pc \in {"returned", "raised"}
BothParallelismSettingsGiven == args.max_parallelism_override /= None /\ args.max_parallelism_cap /= None
WinsorizationInconsistent == args.winsorize_botorch_model /= (args.winsorization_limits /= None)
IsCeilOfHalf(m, n) == 2 * m >= n /\ 2 * m < n + 2

\* ------------------------------------------------------------------ C1
\* C1 (as claimed): a call that reaches the parallelism settings with both
\* max_parallelism_override and max_parallelism_cap non-null fails with a
\* ValueError: it never returns a strategy.
C1_BothGivenAlwaysRaises ==
    (ModelBranch /\ BothParallelismSettingsGiven) => (pc /= "returned" /\ gs = None)

\* ------------------------------------------------------------------ C2
\* C2 (as claimed): whenever exactly one of {winsorize_botorch_model is true,
\* winsorization_limits is given} holds, no strategy is returned.
C2_InconsistentNeverReturns ==
    WinsorizationInconsistent => (pc /= "returned" /\ gs = None)

\* C2 (amended): with inconsistent winsorization arguments, a call in which
\* a model is suggested and no_bayesian_optimization is false never builds
\* the model step nor a strategy and can only end in a ValueError; a call
\* that takes the Sobol-only branch does not look at the winsorization
\* arguments and ends by returning the one-step strategy.
C2_InconsistentRaisesInModelBranch ==
    (WinsorizationInconsistent /\ Suggested) =>
        IF ModelBranch
        THEN /\ pc \notin {"make_strategy", "returned"}
             /\ gs = None
             /\ Len(steps) <= 1
             /\ (~ENABLED Next) => (raised /= None /\ raised[1].type = "ValueError")
        ELSE /\ raised = None
             /\ (~ENABLED Next) => (pc = "returned" /\ Len(gs[1].steps) = 1)
C2_Witness ==
    /\ ~args.winsorize_botorch_model
    /\ args.winsorization_limits /= None
    /\ ModelBranch
    /\ raised = Some([type |-> "ValueError", in |-> "_make_botorch_step"])

C4_Table ==
    IF ContinuousCount(args.search_space) > ChoiceValueCount(args.search_space)
    THEN CASE MultiObjective /\ args.use_saasbo -> Some("FULLYBAYESIANMOO")
           [] MultiObjective /\ ~args.use_saasbo -> Some("MOO")
           [] ~MultiObjective /\ args.use_saasbo -> Some("FULLYBAYESIAN")
           [] ~MultiObjective /\ ~args.use_saasbo -> Some("GPEI")
    ELSE IF ~MultiObjective /\ CombinationCount(args.search_space) <= 65
    THEN Some("BO_MIXED")
    ELSE None
C5_Limits ==
    LET override == args.max_parallelism_override
        cap == args.max_parallelism_cap
    IN  IF override = Some(-1) THEN <<None, None>>
        ELSE IF override /= None THEN <<override, override>>
        ELSE IF cap /= None THEN <<cap, IF cap[1] < 3 THEN cap ELSE Some(3)>>
        ELSE IF ~args.enforce_sequential_optimization THEN <<None, None>>
        ELSE <<None, Some(3)>>
C5_ResolutionOrder ==
    /\ Resolved => <<sobol_parallelism, bo_parallelism>> = C5_Limits
    /\ (ModelBranch /\ Len(steps) >= 1) => steps[1].max_parallelism = C5_Limits[1]
    /\ (ModelBranch /\ Len(steps) >= 2) => steps[2].max_parallelism = C5_Limits[2]
C5_Witness ==
    /\ pc = "returned" /\ ModelBranch
    /\ args.max_parallelism_override = None
    /\ args.max_parallelism_cap = Some(5)
    /\ gs[1].steps[1].max_parallelism = Some(5)
    /\ gs[1].steps[2].max_parallelism = Some(3)

\* ------------------------------------------------------------------ C6
\* C6: min_trials_observed of every step is ceil(num_trials / 2); the Sobol
\* step of the two-step strategy has num_trials = num_initialization_trials,
\* so -1 gives 0 and 7 gives 4; the open-ended steps (num_trials = -1) have
\* min_trials_observed = 0.
C6_MinTrialsObserved ==
    /\ \A i \in DOMAIN steps :
          /\ IsCeilOfHalf(steps[i].min_trials_observed, steps[i].num_trials)
          /\ steps[i].num_trials = -1 => steps[i].min_trials_observed = 0
          /\ steps[i].num_trials = 7 => steps[i].min_trials_observed = 4
    /\ (ModelBranch /\ Len(steps) >= 1 /\ args.num_initialization_trials /= None)
          => steps[1].num_trials = args.num_initialization_trials[1]
    /\ (ModelBranch /\ Len(steps) >= 2) => steps[2].num_trials = -1
    /\ (Suggested /\ ~ModelBranch /\ Len(steps) >= 1) => steps[1].num_trials = -1
C6_Witness ==
    /\ pc = "returned" /\ ModelBranch
    /\ args.num_initialization_trials = Some(7)
    /\ gs[1].steps[1].min_trials_observed = 4
    /\ gs[1].steps[2].min_trials_observed = 0

\* ------------------------------------------------------------------ C7
\* C7 (as claimed): when the call ends in a ValueError, no GenerationStep
\* has been constructed and no strategy exists.
C7_NoStepBeforeError ==
    raised /= None => (steps = <<>> /\ gs = None)

\* C7 (amended): the parallelism error is raised before any GenerationStep
\* is constructed; the winsorization error is raised by _make_botorch_step
\* after the Sobol step, and only it, has been constructed; in both cases no
\* GenerationStrategy is constructed or returned.
C7_ErrorOrder ==
    raised /= None =>
        /\ pc = "raised"
        /\ gs = None
        /\ raised[1].in = "choose_generation_strategy" => steps = <<>>
        /\ raised[1].in = "_make_botorch_step" => (Len(steps) = 1 /\ steps[1].model = "SOBOL")
C7_Witness ==
    /\ raised = Some([type |-> "ValueError", in |-> "_make_botorch_step"])
    /\ Len(steps) = 1
    /\ args.winsorize_botorch_model /\ args.winsorization_limits = None

C9_InitializationBudget ==
    (ModelBranch /\ Len(steps) >= 1) =>
        steps[1].num_trials =
            IF args.num_initialization_trials /= None THEN args.num_initialization_trials[1]
            ELSE IF args.use_batch_trials THEN 1
            ELSE IF Len(args.search_space) > 5 THEN Len(args.search_space)
            ELSE 5
C9_Witness ==
    /\ pc = "returned" /\ ModelBranch
    /\ args.num_initialization_trials = None
    /\ ~args.use_batch_trials
    /\ Len(args.search_space) > 5
    /\ gs[1].steps[1].num_trials = Len(args.search_space)

====
